---- MODULE Spec2Model ----
(***************************************************************************)
(* Code lifecycle and public-lookup engine of the scanback backend:        *)
(* QRService (services/qrService.js), the QRCode model methods             *)
(* (models/QRCode.js) and the handlers of routes/qr.js that drive them.    *)
(*                                                                         *)
(* Granularity: every request handler is an async function; one action of  *)
(* the model is the code between two awaits, together with the store       *)
(* operation the first await waits for.  Node runs such a piece without    *)
(* interruption, so the pieces of concurrent requests interleave freely    *)
(* but never overlap.                                                      *)
(***************************************************************************)
EXTENDS Integers, Sequences, FiniteSets, TLC

\* ------------------------------------------------------------------ bounds
NumProcs == 2          \* concurrent request handlers
MaxOps   == 3          \* requests started in one run
MaxTicks == 2          \* clock advances in one run

\* ------------------------------------------------------- program constants
CACHE_TTL   == 600000  \* 10 * 60 * 1000 ms
OTP_TTL     == 600000  \* 10 * 60 * 1000 ms
MAX_HISTORY == 50      \* scan records kept

NoDate == 0 - 1        \* a Date field that was never assigned

Procs    == 1..NumProcs
Codes    == {"A1", "B2"}              \* code strings requests may name
Users    == {"u1", "u2"}              \* user identities (User._id)
Admin    == "admin"                   \* identity that generates codes
OTPs     == {"111111", "222222"}      \* six-digit strings
Undefined == "undefined"              \* a string property that is not set

\* mutant: the slice keeps everything
SliceAll(s, n) == s

\* Array.prototype.slice(-n): the last n elements (all of them if fewer)
SliceLast(s, n) ==
  IF Len(s) <= n THEN s ELSE SubSeq(s, Len(s) - n + 1, Len(s))

\* obj.key of a JavaScript object: undefined when the key is not there
Prop(obj, key) == IF key \in DOMAIN obj THEN obj[key] ELSE Undefined

\* ------------------------------------------------------------- the record
\* updateOTP sub-document: present says whether the object exists at all;
\* each field is a set holding its value, empty when the field is unset.
NoOTP == [present |-> FALSE, code |-> {}, expires |-> {},
          newEmail |-> {}, newPhone |-> {}]

\* The document createQRCode saves (schema defaults filled in).
NewRecord(ownerId, contact) ==
  [ owner          |-> ownerId,
    contact        |-> contact,
    status         |-> "active",
    isActivated    |-> FALSE,
    activationDate |-> NoDate,
    lastScanned    |-> NoDate,
    scanCount      |-> 0,
    scanHistory    |-> << >>,
    foundBy        |-> {},
    updateOTP      |-> NoOTP,
    v              |-> 0 ]

\* contact of a blank code generated by the admin route
AdminContact == [email |-> Admin, phone |-> "t0"]

\* qrCodeSchema.methods.incrementScanCount, on the in-memory document.
\* pushed records whether the array was only pushed to (TRUE) or was
\* reassigned by the slice (FALSE); save() sends the two differently.
IncrementScanCount(doc, t, ipAddress) ==
  LET entry  == [scannedAt |-> t, ipAddress |-> ipAddress]
      pushed == Append(doc.scanHistory, entry)
  IN  [ doc EXCEPT !.scanCount   = doc.scanCount + 1,
                   !.lastScanned = t,
                   !.scanHistory = IF Len(pushed) > MAX_HISTORY
                                   THEN SliceLast(pushed, MAX_HISTORY)
                                   ELSE pushed ]

\* mutant: the status is left as it was
MarkAsFoundKeepsStatus(doc, finderDetails, t) ==
  [ doc EXCEPT !.foundBy = {[ finderName    |-> Prop(finderDetails, "name"),
                              finderPhone   |-> Prop(finderDetails, "phone"),
                              foundLocation |-> Prop(finderDetails, "location"),
                              foundDate     |-> t ]} ]

\* qrCodeSchema.methods.markAsFound: reads name, phone, email, location and
\* notes of the object it is handed.
MarkAsFound(doc, finderDetails, t) ==
  [ doc EXCEPT !.status  = "found",
               !.foundBy = {[ finderName    |-> Prop(finderDetails, "name"),
                              finderPhone   |-> Prop(finderDetails, "phone"),
                              foundLocation |-> Prop(finderDetails, "location"),
                              foundDate     |-> t ]} ]

\* The field projection of fetchQRCodeFromDatabase: what a public lookup
\* reads, caches and returns.
PublicProjection(rec) ==
  [ isActivated |-> rec.isActivated,
    status      |-> rec.status,
    contact     |-> rec.contact ]

\* ------------------------------------------------------------------ state
VARIABLES
  now,           \* Date.now()
  store,         \* QRCodeModel collection: code -> {} or {record}
  users,         \* User collection: the identities that have an account
  qrCache,       \* qrCache: code -> {} or {[data, timestamp]}
  requestQueue,  \* requestQueue: code -> {} or {handler whose fetch is stored}
  pc,            \* position of each request handler
  loc,           \* its local variables
  result,        \* the response each handler sent in the last step, if any
  ops,           \* requests started so far
  ticks,         \* clock advances so far
  notifications, \* Notification collection: the documents in insertion order
  hist           \* history variables the properties are stated with (see NoHist)

vars == << now, store, users, qrCache, requestQueue, pc, loc, result, ops,
           ticks, hist, notifications >>

\* History variables; no action's guard or effect on the program state reads
\* them.
\*   missQueries[c]  store queries of public lookups of c since the lookups
\*                   of c last were all answered
\*   predates[c]     the cache entry of c was inserted before an activate,
\*                   scan, found or update of c that has since returned
\*   serial[c]       serial number of the OTP stored last for c (0: none yet)
\*   issued[c]       the OTP and the expiry that storeUpdateOTP stored last for
\*                   c (empty: none yet)
\*   applied[c]      serial numbers of the OTPs that authorised an update of
\*                   c, one element per successful verify-update-otp request
\*   spent[c]        OTP strings that authorised an update of c since the
\*                   last storeUpdateOTP for c
\*   swept[c]        cleanupCache has removed an entry of c
\*   atCall[p]       while handler p runs createQRCode or reportFound: what
\*                   the store held for the code when the call began
\*   okScans[c]      scans of c that returned success
\*   scanBase[c]     scanCount of c in the initial state
NoHist ==
  [ missQueries |-> [c \in Codes |-> 0],
    predates    |-> [c \in Codes |-> FALSE],
    serial      |-> [c \in Codes |-> 0],
    issued      |-> [c \in Codes |-> {}],
    applied     |-> [c \in Codes |-> << >>],
    spent       |-> [c \in Codes |-> {}],
    swept       |-> [c \in Codes |-> FALSE],
    atCall      |-> [p \in Procs |-> {}],
    okScans     |-> [c \in Codes |-> 0],
    scanBase    |-> [c \in Codes |-> 0] ]

Idle == "idle"

\* locals of a handler: the code and identity of the request, the document or
\* lean object it read (doc), the request body (arg), the fetch it awaits
\* (wait), a value computed before an await and used after it (val, t)
NoLoc == [ code |-> "-", user |-> "-", op |-> "-", doc |-> {}, arg |-> {},
           wait |-> 0, val |-> "-", t |-> NoDate, n |-> 0 ]

\* a response: the request it answers (code, op and arg: the identity or the
\* OTP the request carried), the outcome (out) and the record data returned
NoResult == [ code |-> "-", op |-> "-", arg |-> "-", out |-> "-", data |-> {} ]

Reply(c, op, arg, out, data) ==
  [ code |-> c, op |-> op, arg |-> arg, out |-> out, data |-> data ]

SetLoc(p, l) == [loc EXCEPT ![p] = l]
Goto(p, label) == [pc EXCEPT ![p] = label]
\* result holds the responses sent by the step just taken, nothing older
Respond(p, c, op, arg, out, data) ==
  [q \in Procs |-> IF q = p THEN Reply(c, op, arg, out, data) ELSE NoResult]
Silent == [q \in Procs |-> NoResult]

\* A request starts: the handler is free and the run has requests left.
CanStart(p) == pc[p] = Idle /\ ops < MaxOps

\* ----------------------------------------------------- PublicLookupCache
\* mutant: no entry ever counts as valid
CacheValidNever(e, t) == FALSE

\* mutant: an entry that has just reached the TTL still counts as valid
CacheValidInclusive(e, t) == t - e.timestamp <= CACHE_TTL

\* line 168: cached && (Date.now() - cached.timestamp) < CACHE_TTL
CacheValid(e, t) == t - e.timestamp < CACHE_TTL

\* mutant: the registry of fetches in flight is not consulted
InFlightNever(c) == FALSE

\* line 174: requestQueue.has(code)
InFlight(c) == requestQueue[c] # {}

\* mutant: the sweep removes nothing
CleanupCacheKeeps(cache, t) == cache

\* cleanupCache: drop every entry older than the TTL
CleanupCache(cache, t) ==
  [k \in Codes |-> {e \in cache[k] : ~(t - e.timestamp > CACHE_TTL)}]

\* qrCache.delete(`qr_${code}`)
Evict(cache, c) == [cache EXCEPT ![c] = {}]

\* mutant: only the handler that started the fetch sees it settle
AwaitingSelf(f) == {f}

\* handlers that wait for the fetch started by handler f
Awaiting(f) == {q \in Procs : pc[q] \in {"lookup_fetch", "lookup_fetched", "lookup_wait"}
                              /\ loc[q].wait = f}

\* lookups of code c that have not been answered yet
PendingLookups(pcs, locs, c) ==
  {q \in Procs : pcs[q] \in {"lookup_fetch", "lookup_fetched", "lookup_wait"}
                 /\ locs[q].code = c}

\* mutant: the finally block leaves the registry as it is
UnregisterNever(queue, c) == queue

\* line 190: requestQueue.delete(code)
Unregister(queue, c) == [queue EXCEPT ![c] = {}]

\* The promise of handler f's fetch settles: f and everyone awaiting it get
\* the outcome, and f's finally block deletes the registry entry of the code.
Settle(f, out, data, histIn) ==
  LET c == loc[f].code
      W == Awaiting(f)
      pc2  == [q \in Procs |-> IF q \in W THEN Idle ELSE pc[q]]
      loc2 == [q \in Procs |-> IF q \in W THEN NoLoc ELSE loc[q]]
  IN  /\ pc' = pc2
      /\ loc' = loc2
      /\ result' = [q \in Procs |-> IF q \in W THEN Reply(c, "lookup", "-", out, data)
                                    ELSE NoResult]
      /\ requestQueue' = Unregister(requestQueue, c)
      /\ hist' = [histIn EXCEPT
                    !.missQueries[c] = IF PendingLookups(pc2, loc2, c) = {} THEN 0 ELSE @]

\* getQRCodeByCodePublic up to its first await: cache hit, join the fetch in
\* flight, or start a fetch and register it.
GetQRCodeByCodePublic(p, c) ==
  /\ CanStart(p)
  /\ ops' = ops + 1
  /\ IF \E e \in qrCache[c] : CacheValid(e, now)
     THEN /\ result' = Respond(p, c, "lookup", "-", "hit", {e.data : e \in qrCache[c]})
          /\ UNCHANGED << pc, loc, requestQueue, hist >>
     ELSE IF InFlight(c)
     THEN /\ pc' = Goto(p, "lookup_wait")
          /\ loc' = SetLoc(p, [NoLoc EXCEPT !.code = c, !.op = "lookup",
                                            !.wait = CHOOSE f \in requestQueue[c] : TRUE])
          /\ result' = Silent
          /\ UNCHANGED << requestQueue, hist >>
     ELSE /\ pc' = Goto(p, "lookup_fetch")
          /\ loc' = SetLoc(p, [NoLoc EXCEPT !.code = c, !.op = "lookup", !.wait = p])
          /\ result' = Silent
          /\ requestQueue' = [requestQueue EXCEPT ![c] = {p}]
          /\ hist' = [hist EXCEPT !.missQueries[c] = @ + 1]
  /\ UNCHANGED << notifications, now, store, users, qrCache, ticks >>

\* fetchQRCodeFromDatabase: the store executes the findOne
FetchQuery(p) ==
  /\ pc[p] = "lookup_fetch"
  /\ pc' = Goto(p, "lookup_fetched")
  /\ loc' = SetLoc(p, [loc[p] EXCEPT !.doc = {PublicProjection(r) : r \in store[loc[p].code]}])
  /\ result' = Silent
  /\ UNCHANGED << notifications, now, store, users, qrCache, requestQueue, ops, ticks,
                  hist >>

\* fetchQRCodeFromDatabase: the query exceeds maxTimeMS(5000) and rejects
FetchTimeout(p) ==
  /\ pc[p] = "lookup_fetch"
  /\ Settle(p, "Failed to get QR code: timeout", {}, hist)
  /\ UNCHANGED << notifications, now, store, users, qrCache, ops, ticks >>

\* mutant: a query that found nothing caches a blank record
AfterNotFoundCached(cache, c, t) ==
  [cache EXCEPT ![c] = {[data |-> PublicProjection(NewRecord(Admin, AdminContact)),
                         timestamp |-> t]}]

\* lines 239-241: if (!qrCode) throw, ahead of qrCache.set and the sweep:
\* the cache stays as it is
AfterNotFound(cache, c, t) == cache

\* fetchQRCodeFromDatabase after the query: not found, or cache the result
\* and sweep; then the promise settles.
FetchReturn(p) ==
  LET c == loc[p].code IN
  /\ pc[p] = "lookup_fetched"
  /\ IF loc[p].doc = {}
     THEN /\ Settle(p, "Failed to get QR code: QR code not found", {}, hist)
          /\ qrCache' = AfterNotFound(qrCache, c, now)
     ELSE /\ qrCache' = CleanupCache(
                [qrCache EXCEPT ![c] = {[data |-> d, timestamp |-> now] : d \in loc[p].doc}],
                now)
          /\ Settle(p, "ok", loc[p].doc,
                    [hist EXCEPT !.predates[c] = FALSE,
                                 !.swept = [k \in Codes |->
                                              @[k] \/ (k # c /\ qrCache[k] # {}
                                                              /\ qrCache'[k] = {})]])
  /\ UNCHANGED << notifications, now, store, users, ops, ticks >>

\* ------------------------------------------------------------- the clock
TickSteps == {1, CACHE_TTL - 1}

Tick(d) ==
  /\ ticks < MaxTicks
  /\ ticks' = ticks + 1
  /\ now' = now + d
  /\ result' = Silent
  /\ UNCHANGED << store, users, qrCache, requestQueue, pc, loc, ops,
                  hist, notifications >>

\* ------------------------------------------------------- LifecycleManager
\* mutant: the query has no filter on the code
TheRecordAny(c) == CHOOSE r \in UNION {store[k] : k \in Codes} : TRUE

TheRecord(c) == CHOOSE r \in store[c] : TRUE

\* history: a mutation of c was persisted and its handler ran its eviction
\* (if it has one); an entry that is still cached was inserted before it
Persisted(h, c, cacheAfter) == [h EXCEPT !.predates[c] = cacheAfter[c] # {}]

\* qrCode.save() of a scanned document.  Mongoose sends the delta of the
\* document: the assigned paths as $set, a pushed array as $push (how =
\* "push"), a reassigned array as $set guarded by the version the document
\* was read with (how = "set"); both bump the version key.
ScanDeltaApplies(cur, doc, how) == how = "push" \/ cur.v = doc.v

\* mutant: save() writes the whole document as it was read
SaveScanWhole(cur, doc, how) == doc

SaveScan(cur, doc, how) ==
  [ cur EXCEPT !.scanCount   = doc.scanCount,
               !.lastScanned = doc.lastScanned,
               !.scanHistory = IF how = "push"
                               THEN Append(@, doc.scanHistory[Len(doc.scanHistory)])
                               ELSE doc.scanHistory,
               !.v           = @ + 1 ]

\* mutant: the activation test of the scan is missing
ScanRefusedNever(rec) == FALSE

\* lines 352 and 604: if (!qrCode.isActivated) throw
ScanRefused(rec) == ~rec.isActivated

\* handleScan / trackScan up to the save: findOne, the two checks and
\* incrementScanCount on the document read
ScanFind(p, c, op, ip) ==
  /\ CanStart(p)
  /\ ops' = ops + 1
  /\ IF store[c] = {}
     THEN /\ result' = Respond(p, c, op, ip, "NotFound", {})
          /\ UNCHANGED << pc, loc >>
     ELSE IF ScanRefused(TheRecord(c))
     THEN /\ result' = Respond(p, c, op, ip, "NotActivated", {})
          /\ UNCHANGED << pc, loc >>
     ELSE /\ pc' = Goto(p, "scan_save")
          /\ loc' = SetLoc(p, [NoLoc EXCEPT
                 !.code = c, !.op = op,
                 !.doc  = {IncrementScanCount(TheRecord(c), now, ip)},
                 !.val  = IF Len(TheRecord(c).scanHistory) + 1 > MAX_HISTORY
                          THEN "set" ELSE "push"])
          /\ result' = Silent
  /\ UNCHANGED << notifications, now, store, users, qrCache, requestQueue, ticks, hist >>

HandleScan(p, c, ip) == ScanFind(p, c, "handleScan", ip)

TrackScan(p, c, ip) == ScanFind(p, c, "trackScan", ip)

\* handleScan / trackScan from the save on: save, evict the cache entry, reply
ScanSave(p) ==
  LET c   == loc[p].code
      doc == CHOOSE d \in loc[p].doc : TRUE
  IN
  /\ pc[p] = "scan_save"
  /\ pc' = Goto(p, Idle)
  /\ loc' = SetLoc(p, NoLoc)
  /\ IF store[c] = {}
     THEN /\ result' = Respond(p, c, loc[p].op, "-", "DocumentNotFound", {})
          /\ UNCHANGED << store, qrCache, hist >>
     ELSE IF ~ScanDeltaApplies(TheRecord(c), doc, loc[p].val)
     THEN /\ result' = Respond(p, c, loc[p].op, "-", "VersionError", {})
          /\ UNCHANGED << store, qrCache, hist >>
     ELSE /\ store' = [store EXCEPT ![c] = {SaveScan(TheRecord(c), doc, loc[p].val)}]
          /\ qrCache' = Evict(qrCache, c)
          /\ hist' = [Persisted(hist, c, Evict(qrCache, c)) EXCEPT !.okScans[c] = @ + 1]
          /\ result' = Respond(p, c, loc[p].op, "-", "ok", {})
  /\ UNCHANGED << notifications, now, users, requestQueue, ops, ticks >>

\* POST /:code/activate before it calls the service: find or create the
\* account of contact.email (u), read the record, and answer at once when
\* the code is activated already.
\* mutant: any requester passes for the owner
SameOwnerAny(rec, u) == rec.owner # Undefined

\* qr.js line 211: existingQRCode.owner && owner.toString() === user._id.toString()
SameOwner(rec, u) == rec.owner # Undefined /\ rec.owner = u

ActivateCheck(p, c, u, phone) ==
  /\ CanStart(p)
  /\ ops' = ops + 1
  /\ users' = users \cup {u}
  /\ IF store[c] = {}
     THEN /\ result' = Respond(p, c, "activate", u, "NotFound", {})
          /\ UNCHANGED << pc, loc >>
     ELSE IF TheRecord(c).isActivated
     THEN /\ result' = IF SameOwner(TheRecord(c), u)
                       THEN Respond(p, c, "activate", u, "ok-already", {TheRecord(c)})
                       ELSE Respond(p, c, "activate", u, "AlreadyActivated", {})
          /\ UNCHANGED << pc, loc >>
     ELSE /\ pc' = Goto(p, "activate_find")
          /\ loc' = SetLoc(p, [NoLoc EXCEPT
                 !.code = c, !.op = "activate", !.user = u,
                 !.arg  = {[email |-> u, phone |-> phone]}])
          /\ result' = Silent
  /\ UNCHANGED << notifications, now, store, qrCache, requestQueue, ticks, hist >>

\* activateQRCode up to the save: findOne, the two checks, the assignments
ActivateFind(p) ==
  LET c == loc[p].code IN
  /\ pc[p] = "activate_find"
  /\ IF store[c] = {}
     THEN /\ result' = Respond(p, c, "activate", loc[p].user, "NotFound", {})
          /\ pc' = Goto(p, Idle)
          /\ loc' = SetLoc(p, NoLoc)
     ELSE IF TheRecord(c).isActivated
     THEN /\ result' = Respond(p, c, "activate", loc[p].user, "AlreadyActivated", {})
          /\ pc' = Goto(p, Idle)
          /\ loc' = SetLoc(p, NoLoc)
     ELSE /\ pc' = Goto(p, "activate_save")
          /\ loc' = SetLoc(p, [loc[p] EXCEPT
                 !.doc = {[TheRecord(c) EXCEPT
                             !.isActivated    = TRUE,
                             !.activationDate = now,
                             !.owner          = loc[p].user,
                             !.contact        = CHOOSE a \in loc[p].arg : TRUE]}])
          /\ result' = Silent
  /\ UNCHANGED << notifications, now, store, users, qrCache, requestQueue, ops, ticks, hist >>

\* qrCode.save() of an activated document: the assigned paths as $set
SaveActivation(cur, doc) ==
  [ cur EXCEPT !.isActivated    = doc.isActivated,
               !.activationDate = doc.activationDate,
               !.owner          = doc.owner,
               !.contact        = doc.contact ]

\* activateQRCode from the save on: save, evict the cache entry, reply
ActivateSave(p) ==
  LET c   == loc[p].code
      doc == CHOOSE d \in loc[p].doc : TRUE
  IN
  /\ pc[p] = "activate_save"
  /\ pc' = Goto(p, Idle)
  /\ loc' = SetLoc(p, NoLoc)
  /\ IF store[c] = {}
     THEN /\ result' = Respond(p, c, "activate", loc[p].user, "DocumentNotFound", {})
          /\ UNCHANGED << store, qrCache, hist >>
     ELSE /\ store' = [store EXCEPT ![c] = {SaveActivation(TheRecord(c), doc)}]
          /\ qrCache' = Evict(qrCache, c)
          /\ hist' = Persisted(hist, c, Evict(qrCache, c))
          /\ result' = Respond(p, c, "activate", loc[p].user, "ok", {})
  /\ UNCHANGED << notifications, now, users, requestQueue, ops, ticks >>

\* reportFound up to the save: findOne, the two checks, markAsFound.
\* finderDetails is the request body of POST /:code/found.
Finders == {[finderName |-> "f1", finderPhone |-> "t9", foundLocation |-> "park"]}

ReportFoundFind(p, c, finderDetails) ==
  /\ CanStart(p)
  /\ ops' = ops + 1
  /\ IF store[c] = {}
     THEN /\ result' = Respond(p, c, "reportFound", "-", "NotFound", {})
          /\ UNCHANGED << pc, loc, hist >>
     ELSE IF TheRecord(c).status = "found"
     THEN /\ result' = Respond(p, c, "reportFound", "-", "AlreadyFound", {})
          /\ UNCHANGED << pc, loc, hist >>
     ELSE /\ pc' = Goto(p, "found_save")
          /\ loc' = SetLoc(p, [NoLoc EXCEPT
                 !.code = c, !.op = "reportFound",
                 !.doc  = {MarkAsFound(TheRecord(c), finderDetails, now)}])
          /\ hist' = [hist EXCEPT !.atCall[p] = store[c]]
          /\ result' = Silent
  /\ UNCHANGED << notifications, now, store, users, qrCache, requestQueue, ticks >>

\* mutant: save() writes the whole document as it was read
SaveFoundWhole(cur, doc) == doc

\* qrCode.save() of a document marked as found: the assigned paths as $set
SaveFound(cur, doc) ==
  [ cur EXCEPT !.status = doc.status, !.foundBy = doc.foundBy ]

\* reportFound: save and evict the cache entry
ReportFoundSave(p) ==
  LET c   == loc[p].code
      doc == CHOOSE d \in loc[p].doc : TRUE
  IN
  /\ pc[p] = "found_save"
  /\ IF store[c] = {}
     THEN /\ result' = Respond(p, c, "reportFound", "-", "DocumentNotFound", {})
          /\ pc' = Goto(p, Idle)
          /\ loc' = SetLoc(p, NoLoc)
          /\ hist' = [hist EXCEPT !.atCall[p] = {}]
          /\ UNCHANGED << store, qrCache >>
     ELSE /\ store' = [store EXCEPT ![c] = {SaveFound(TheRecord(c), doc)}]
          /\ qrCache' = Evict(qrCache, c)
          /\ hist' = Persisted(hist, c, Evict(qrCache, c))
          /\ pc' = Goto(p, "found_stats")
          /\ result' = Silent
          /\ UNCHANGED loc
  /\ UNCHANGED << notifications, now, users, requestQueue, ops, ticks >>

\* reportFound: the owner's statistics are updated, then it returns
ReportFoundStats(p) ==
  /\ pc[p] = "found_stats"
  /\ pc' = Goto(p, Idle)
  /\ loc' = SetLoc(p, NoLoc)
  /\ result' = Respond(p, loc[p].code, "reportFound", "-", "ok", {})
  /\ hist' = [hist EXCEPT !.atCall[p] = {}]
  /\ UNCHANGED << notifications, now, store, users, qrCache, requestQueue, ops, ticks >>

\* reportFound: the update of the owner's statistics is rejected by the
\* store; the catch rethrows
ReportFoundStatsFail(p) ==
  /\ pc[p] = "found_stats"
  /\ pc' = Goto(p, Idle)
  /\ loc' = SetLoc(p, NoLoc)
  /\ result' = Respond(p, loc[p].code, "reportFound", "-",
                       "Failed to report as found: store error", {})
  /\ hist' = [hist EXCEPT !.atCall[p] = {}]
  /\ UNCHANGED << notifications, now, store, users, qrCache, requestQueue, ops, ticks >>

\* The ownership check of the private routes: the lean record is read and
\* its owner compared with the identity of the token.
\* "NotFound", "AccessDenied" or "ok"
Ownership(c, u) ==
  IF store[c] = {} THEN "NotFound"
  ELSE IF TheRecord(c).owner # u THEN "AccessDenied"
  ELSE "ok"

\* PUT /:code up to the service call
UpdateCheck(p, c, u, updateData) ==
  /\ CanStart(p)
  /\ ops' = ops + 1
  /\ IF Ownership(c, u) # "ok"
     THEN /\ result' = Respond(p, c, "update", u, Ownership(c, u), {})
          /\ UNCHANGED << pc, loc >>
     ELSE /\ pc' = Goto(p, "update_write")
          /\ loc' = SetLoc(p, [NoLoc EXCEPT !.code = c, !.op = "update", !.user = u,
                                            !.arg = {updateData}])
          /\ result' = Silent
  /\ UNCHANGED << notifications, now, store, users, qrCache, requestQueue, ticks, hist >>

\* the $set of updateQRCode: each section that is present in updateData
\* replaces the stored section
ApplyUpdate(cur, updateData) ==
  [ cur EXCEPT !.contact = IF updateData.contact # {}
                           THEN CHOOSE k \in updateData.contact : TRUE
                           ELSE @ ]

\* updateQRCode: findOneAndUpdate, NotFound when there is no record
UpdateQRCode(p) ==
  LET c == loc[p].code IN
  /\ pc[p] = "update_write"
  /\ pc' = Goto(p, Idle)
  /\ loc' = SetLoc(p, NoLoc)
  /\ IF store[c] = {}
     THEN /\ result' = Respond(p, c, "update", loc[p].user, "NotFound", {})
          /\ UNCHANGED << store, qrCache, hist >>
     ELSE /\ store' = [store EXCEPT
                 ![c] = {ApplyUpdate(TheRecord(c), CHOOSE a \in loc[p].arg : TRUE)}]
          /\ hist' = Persisted(hist, c, qrCache)
          /\ result' = Respond(p, c, "update", loc[p].user, "ok", {})
          /\ UNCHANGED qrCache
  /\ UNCHANGED << notifications, now, users, requestQueue, ops, ticks >>

\* PATCH /:code/toggle-status up to the service call: the new status is
\* computed from the record read for the ownership check
NewStatus(status) == IF status = "active" THEN "inactive" ELSE "active"

ToggleCheck(p, c, u) ==
  /\ CanStart(p)
  /\ ops' = ops + 1
  /\ IF Ownership(c, u) # "ok"
     THEN /\ result' = Respond(p, c, "toggle", u, Ownership(c, u), {})
          /\ UNCHANGED << pc, loc >>
     ELSE /\ pc' = Goto(p, "toggle_write")
          /\ loc' = SetLoc(p, [NoLoc EXCEPT !.code = c, !.op = "toggle", !.user = u,
                                            !.val = NewStatus(TheRecord(c).status)])
          /\ result' = Silent
  /\ UNCHANGED << notifications, now, store, users, qrCache, requestQueue, ticks, hist >>

\* toggleQRCodeStatus: findOneAndUpdate of status
ToggleQRCodeStatus(p) ==
  LET c == loc[p].code IN
  /\ pc[p] = "toggle_write"
  /\ pc' = Goto(p, Idle)
  /\ loc' = SetLoc(p, NoLoc)
  /\ IF store[c] = {}
     THEN /\ result' = Respond(p, c, "toggle", loc[p].user, "NotFound", {})
          /\ UNCHANGED store
     ELSE /\ store' = [store EXCEPT ![c] = {[TheRecord(c) EXCEPT !.status = loc[p].val]}]
          /\ result' = Respond(p, c, "toggle", loc[p].user, "ok", {})
  /\ UNCHANGED << notifications, now, users, qrCache, requestQueue, ops, ticks, hist >>

\* deactivateQRCode: findOneAndUpdate of status and isActivated
DeactivateQRCode(p, c) ==
  /\ CanStart(p)
  /\ ops' = ops + 1
  /\ IF store[c] = {}
     THEN /\ result' = Respond(p, c, "deactivate", "-", "NotFound", {})
          /\ UNCHANGED store
     ELSE /\ store' = [store EXCEPT ![c] = {[TheRecord(c) EXCEPT !.status = "inactive",
                                                                 !.isActivated = FALSE]}]
          /\ result' = Respond(p, c, "deactivate", "-", "ok", {})
  /\ UNCHANGED << notifications, now, users, qrCache, requestQueue, pc, loc, ticks, hist >>

\* DELETE /api/qr/:code up to the delete: ownership check
DeleteCheck(p, c, u) ==
  /\ CanStart(p)
  /\ ops' = ops + 1
  /\ IF Ownership(c, u) # "ok"
     THEN /\ result' = Respond(p, c, "delete", u, Ownership(c, u), {})
          /\ UNCHANGED << pc, loc >>
     ELSE /\ pc' = Goto(p, "delete_write")
          /\ loc' = SetLoc(p, [NoLoc EXCEPT !.code = c, !.op = "delete", !.user = u])
          /\ result' = Silent
  /\ UNCHANGED << notifications, now, store, users, qrCache, requestQueue, ticks, hist >>

\* DELETE /api/qr/:code: findOneAndDelete, whose result is not looked at
DeleteQRCode(p) ==
  LET c == loc[p].code IN
  /\ pc[p] = "delete_write"
  /\ pc' = Goto(p, Idle)
  /\ loc' = SetLoc(p, NoLoc)
  /\ store' = [store EXCEPT ![c] = {}]
  /\ result' = Respond(p, c, "delete", loc[p].user, "ok", {})
  /\ UNCHANGED << notifications, now, users, qrCache, requestQueue, ops, ticks, hist >>

\* DELETE /api/admin/qr-codes/:code: findOneAndDelete, 404 when nothing was
\* deleted
AdminDelete(p, c) ==
  /\ CanStart(p)
  /\ ops' = ops + 1
  /\ store' = [store EXCEPT ![c] = {}]
  /\ result' = Respond(p, c, "delete", Admin,
                       IF store[c] = {} THEN "NotFound" ELSE "ok", {})
  /\ UNCHANGED << notifications, now, users, qrCache, requestQueue, pc, loc, ticks, hist >>

\* ------------------------------------------------------ ContactUpdateFlow
\* POST /:code/send-update-otp up to storeUpdateOTP: ownership check, then
\* the OTP is drawn and its expiry computed
SendOtpCheck(p, c, u, body, otp) ==
  /\ CanStart(p)
  /\ ops' = ops + 1
  /\ IF Ownership(c, u) # "ok"
     THEN /\ result' = Respond(p, c, "sendOtp", u, Ownership(c, u), {})
          /\ UNCHANGED << pc, loc >>
     ELSE /\ pc' = Goto(p, "otp_store")
          /\ loc' = SetLoc(p, [NoLoc EXCEPT !.code = c, !.op = "sendOtp", !.user = u,
                                            !.arg = {body}, !.val = otp,
                                            !.t = now + OTP_TTL])
          /\ result' = Silent
  /\ UNCHANGED << notifications, now, store, users, qrCache, requestQueue, ticks, hist >>

\* the $set of storeUpdateOTP
StoredOTP(otp, expires, body) ==
  [ present |-> TRUE, code |-> {otp}, expires |-> {expires},
    newEmail |-> body.newEmail, newPhone |-> body.newPhone ]

\* storeUpdateOTP (a missing record is no error), then the OTP is mailed
\* and the request answered
StoreUpdateOTP(p) ==
  LET c == loc[p].code IN
  /\ pc[p] = "otp_store"
  /\ pc' = Goto(p, Idle)
  /\ loc' = SetLoc(p, NoLoc)
  /\ result' = Respond(p, c, "sendOtp", loc[p].user, "ok", {})
  /\ IF store[c] = {}
     THEN UNCHANGED << store, hist >>
     ELSE /\ store' = [store EXCEPT ![c] = {[TheRecord(c) EXCEPT
                 !.updateOTP = StoredOTP(loc[p].val, loc[p].t,
                                         CHOOSE a \in loc[p].arg : TRUE)]}]
          /\ hist' = [hist EXCEPT !.serial[c] = @ + 1, !.spent[c] = {},
                                  !.issued[c] = {[code |-> loc[p].val,
                                                  expires |-> loc[p].t]}]
  /\ UNCHANGED << notifications, now, users, qrCache, requestQueue, ops, ticks >>

\* POST /:code/verify-update-otp up to verifyUpdateOTP: ownership check
VerifyCheck(p, c, u, otp, updateData) ==
  /\ CanStart(p)
  /\ ops' = ops + 1
  /\ IF Ownership(c, u) # "ok"
     THEN /\ result' = Respond(p, c, "verify", otp, Ownership(c, u), {})
          /\ UNCHANGED << pc, loc >>
     ELSE /\ pc' = Goto(p, "verify_otp")
          /\ loc' = SetLoc(p, [NoLoc EXCEPT !.code = c, !.op = "verify", !.user = u,
                                            !.arg = {updateData}, !.val = otp])
          /\ result' = Silent
  /\ UNCHANGED << notifications, now, store, users, qrCache, requestQueue, ticks, hist >>

\* mutant: any submitted OTP passes while the stored one has not expired
OtpValidAnyCode(rec, otp, t) ==
  /\ rec.updateOTP.present
  /\ \E e \in rec.updateOTP.expires : t < e

\* mutant: an OTP is still accepted at the instant it expires
OtpValidInclusive(rec, otp, t) ==
  /\ rec.updateOTP.present
  /\ otp \in rec.updateOTP.code
  /\ \E e \in rec.updateOTP.expires : t <= e

\* the test of verifyUpdateOTP on the lean record
OtpValid(rec, otp, t) ==
  /\ rec.updateOTP.present
  /\ otp \in rec.updateOTP.code
  /\ \E e \in rec.updateOTP.expires : t < e

\* verifyUpdateOTP and the 400 answer of the route when it returns false
VerifyUpdateOTP(p) ==
  LET c == loc[p].code IN
  /\ pc[p] = "verify_otp"
  /\ IF store[c] # {} /\ OtpValid(TheRecord(c), loc[p].val, now)
     THEN /\ pc' = Goto(p, "verify_update")
          /\ loc' = SetLoc(p, [loc[p] EXCEPT !.n = hist.serial[c]])
          /\ result' = Silent
     ELSE /\ pc' = Goto(p, Idle)
          /\ loc' = SetLoc(p, NoLoc)
          /\ result' = Respond(p, c, "verify", loc[p].val, "InvalidOrExpiredOTP", {})
  /\ UNCHANGED << notifications, now, store, users, qrCache, requestQueue, ops, ticks, hist >>

\* verify-update-otp: updateQRCode with the request's updateData
VerifyApply(p) ==
  LET c == loc[p].code IN
  /\ pc[p] = "verify_update"
  /\ IF store[c] = {}
     THEN /\ pc' = Goto(p, Idle)
          /\ loc' = SetLoc(p, NoLoc)
          /\ result' = Respond(p, c, "verify", loc[p].val, "NotFound", {})
          /\ UNCHANGED << store, hist >>
     ELSE /\ pc' = Goto(p, "verify_clear")
          /\ store' = [store EXCEPT
                 ![c] = {ApplyUpdate(TheRecord(c), CHOOSE a \in loc[p].arg : TRUE)}]
          /\ hist' = Persisted(hist, c, qrCache)
          /\ result' = Silent
          /\ UNCHANGED loc
  /\ UNCHANGED << notifications, now, users, qrCache, requestQueue, ops, ticks >>

\* mutant: the expiry is left in place
ClearedOTPKeepsExpiry(otpDoc) ==
  [ otpDoc EXCEPT !.code = {}, !.newEmail = {}, !.newPhone = {} ]

\* mutant: the code and its expiry are left in place
ClearedOTPKeepsCode(otpDoc) == [ otpDoc EXCEPT !.newEmail = {}, !.newPhone = {} ]

\* the $unset of clearUpdateOTP: the four fields go, the object stays
ClearedOTP(otpDoc) ==
  [ otpDoc EXCEPT !.code = {}, !.expires = {}, !.newEmail = {}, !.newPhone = {} ]

\* verify-update-otp: clearUpdateOTP, then the success answer
VerifyClear(p) ==
  LET c == loc[p].code IN
  /\ pc[p] = "verify_clear"
  /\ pc' = Goto(p, Idle)
  /\ loc' = SetLoc(p, NoLoc)
  /\ result' = Respond(p, c, "verify", loc[p].val, "ok", {})
  /\ store' = [store EXCEPT ![c] = {[r EXCEPT !.updateOTP = ClearedOTP(@)] : r \in store[c]}]
  /\ hist' = [hist EXCEPT !.applied[c] = Append(@, loc[p].n),
                          !.spent[c]   = @ \cup {loc[p].val}]
  /\ UNCHANGED << notifications, now, users, qrCache, requestQueue, ops, ticks >>

\* ---------------------------------------------------- scan notifications
\* POST /api/notifications/send-scan-notification up to the mail: the code
\* is read, a Notification with a pending email channel is saved.
NotifyCreate(p, c) ==
  /\ CanStart(p)
  /\ ops' = ops + 1
  /\ IF store[c] = {}
     THEN /\ result' = Respond(p, c, "notify", "-", "NotFound", {})
          /\ UNCHANGED << pc, loc, notifications >>
     ELSE /\ notifications' = Append(notifications,
                                     [code |-> c, type |-> "scan", email |-> "pending"])
          /\ pc' = Goto(p, "notify_send")
          /\ loc' = SetLoc(p, [NoLoc EXCEPT !.code = c, !.op = "notify",
                                            !.n = Len(notifications) + 1])
          /\ result' = Silent
  /\ UNCHANGED << now, store, users, qrCache, requestQueue, ticks, hist >>

\* send-scan-notification from the mail on: sendScanNotification resolves
\* (delivered) or throws; the channel status is saved either way and the
\* request is answered with success.
NotifyDeliver(p, delivered) ==
  /\ pc[p] = "notify_send"
  /\ notifications' = [notifications EXCEPT
         ![loc[p].n].email = IF delivered THEN "sent" ELSE "failed"]
  /\ pc' = Goto(p, Idle)
  /\ loc' = SetLoc(p, NoLoc)
  /\ result' = Respond(p, loc[p].code, "notify", "-", "ok", {})
  /\ UNCHANGED << now, store, users, qrCache, requestQueue, ops, ticks, hist >>

\* ------------------------------------------------------------ createQRCode
\* createQRCode up to the save: generateUniqueCode draws the code (twelve
\* hex digits of a uuid, any code string), the image is generated, the
\* document is built.
CreateGenerate(p, c, ownerId) ==
  /\ CanStart(p)
  /\ ops' = ops + 1
  /\ pc' = Goto(p, "create_save")
  /\ loc' = SetLoc(p, [NoLoc EXCEPT !.code = c, !.op = "create", !.user = ownerId,
                                    !.doc = {NewRecord(ownerId, AdminContact)}])
  /\ hist' = [hist EXCEPT !.atCall[p] = store[c]]
  /\ result' = Silent
  /\ UNCHANGED << notifications, now, store, users, qrCache, requestQueue, ticks >>

\* createQRCode: qrCode.save().  The unique index on code rejects the insert
\* of a code that is stored already; the catch rethrows the error.
CreateSave(p) ==
  LET c == loc[p].code IN
  /\ pc[p] = "create_save"
  /\ IF store[c] # {}
     THEN /\ result' = Respond(p, c, "create", loc[p].user,
                               "Failed to create QR code: duplicate key", {})
          /\ pc' = Goto(p, Idle)
          /\ loc' = SetLoc(p, NoLoc)
          /\ hist' = [hist EXCEPT !.atCall[p] = {}]
          /\ UNCHANGED store
     ELSE /\ store' = [store EXCEPT ![c] = loc[p].doc]
          /\ pc' = Goto(p, "create_stats")
          /\ result' = Silent
          /\ UNCHANGED << loc, hist >>
  /\ UNCHANGED << notifications, now, users, qrCache, requestQueue, ops, ticks >>

\* createQRCode: the owner's statistics are updated, then it returns
CreateStats(p) ==
  /\ pc[p] = "create_stats"
  /\ pc' = Goto(p, Idle)
  /\ loc' = SetLoc(p, NoLoc)
  /\ result' = Respond(p, loc[p].code, "create", loc[p].user, "ok", loc[p].doc)
  /\ hist' = [hist EXCEPT !.atCall[p] = {}]
  /\ UNCHANGED << notifications, now, store, users, qrCache, requestQueue, ops, ticks >>

\* createQRCode: the update of the owner's statistics is rejected by the
\* store; the catch rethrows
CreateStatsFail(p) ==
  /\ pc[p] = "create_stats"
  /\ pc' = Goto(p, Idle)
  /\ loc' = SetLoc(p, NoLoc)
  /\ result' = Respond(p, loc[p].code, "create", loc[p].user,
                       "Failed to create QR code: store error", {})
  /\ hist' = [hist EXCEPT !.atCall[p] = {}]
  /\ UNCHANGED << notifications, now, store, users, qrCache, requestQueue, ops, ticks >>

\* ----------------------------------------------------------- initial states
\* A code as the admin route generates it, and the same code activated by
\* u at time t; B2 names no record.
Blank == NewRecord(Admin, AdminContact)

Activated(u, phone, t) ==
  SaveActivation(Blank, [Blank EXCEPT !.isActivated = TRUE, !.activationDate = t,
                                      !.owner = u,
                                      !.contact = [email |-> u, phone |-> phone]])

\* the record after n scans, one per millisecond from time 1 on
RECURSIVE Scanned(_, _)
Scanned(rec, n) ==
  IF n = 0 THEN rec
  ELSE LET before == Scanned(rec, n - 1)
           doc    == IncrementScanCount(before, n, "ip0")
       IN  SaveScan(before, doc, IF Len(before.scanHistory) + 1 > MAX_HISTORY
                                 THEN "set" ELSE "push")

InitWith(rec, t) ==
  /\ now = t
  /\ store = [c \in Codes |-> IF c = "A1" THEN {rec} ELSE {}]
  /\ users = {Admin} \cup (IF rec.owner \in Users THEN {rec.owner} ELSE {})
  /\ qrCache = [c \in Codes |-> {}]
  /\ requestQueue = [c \in Codes |-> {}]
  /\ pc = [p \in Procs |-> Idle]
  /\ loc = [p \in Procs |-> NoLoc]
  /\ result = [p \in Procs |-> NoResult]
  /\ ops = 0
  /\ ticks = 0
  /\ notifications = << >>
  /\ hist = [NoHist EXCEPT !.scanBase["A1"] = rec.scanCount]

IPs == {"ip1"}

UpdateBodies == {[contact |-> {}], [contact |-> {[email |-> "u1", phone |-> "t2"]}]}

\* ------------------------------------------- the lifecycle and the cache
\* Every lifecycle operation next to public lookups, at one instant.
Init == \E rec \in {Blank, Activated("u1", "t1", 0)} : InitWith(rec, 0)

Next ==
  \/ \E p \in Procs, c \in Codes : GetQRCodeByCodePublic(p, c)
  \/ \E p \in Procs : FetchQuery(p)
  \/ \E p \in Procs : FetchTimeout(p)
  \/ \E p \in Procs : FetchReturn(p)
  \/ \E p \in Procs, c \in Codes, ip \in IPs : HandleScan(p, c, ip)
  \/ \E p \in Procs, c \in Codes, ip \in IPs : TrackScan(p, c, ip)
  \/ \E p \in Procs : ScanSave(p)
  \/ \E p \in Procs, c \in Codes, u \in Users : ActivateCheck(p, c, u, "t1")
  \/ \E p \in Procs : ActivateFind(p)
  \/ \E p \in Procs : ActivateSave(p)
  \/ \E p \in Procs, c \in Codes, f \in Finders : ReportFoundFind(p, c, f)
  \/ \E p \in Procs : ReportFoundSave(p)
  \/ \E p \in Procs : ReportFoundStats(p)
  \/ \E p \in Procs, c \in Codes, u \in Users, d \in UpdateBodies : UpdateCheck(p, c, u, d)
  \/ \E p \in Procs : UpdateQRCode(p)
  \/ \E p \in Procs, c \in Codes, u \in Users : ToggleCheck(p, c, u)
  \/ \E p \in Procs : ToggleQRCodeStatus(p)
  \/ \E p \in Procs, c \in Codes : DeactivateQRCode(p, c)

Spec == Init /\ [][Next]_vars

\* ------------------------------------------------ activation and scanning
\* Codes are activated, deactivated, scanned and looked up.
InitLife == \E rec \in {Blank, Activated("u1", "t1", 0)} : InitWith(rec, 0)

NextLife ==
  \/ \E p \in Procs, c \in Codes : GetQRCodeByCodePublic(p, c)
  \/ \E p \in Procs : FetchQuery(p)
  \/ \E p \in Procs : FetchReturn(p)
  \/ \E p \in Procs, c \in Codes, ip \in IPs : HandleScan(p, c, ip)
  \/ \E p \in Procs, c \in Codes, ip \in IPs : TrackScan(p, c, ip)
  \/ \E p \in Procs : ScanSave(p)
  \/ \E p \in Procs, c \in Codes, u \in Users : ActivateCheck(p, c, u, "t1")
  \/ \E p \in Procs : ActivateFind(p)
  \/ \E p \in Procs : ActivateSave(p)
  \/ \E p \in Procs, c \in Codes : DeactivateQRCode(p, c)

SpecLife == InitLife /\ [][NextLife]_vars

\* Activation and deactivation alone, with the clock.
NextAct ==
  \/ \E p \in Procs, c \in Codes, u \in Users : ActivateCheck(p, c, u, "t1")
  \/ \E p \in Procs : ActivateFind(p)
  \/ \E p \in Procs : ActivateSave(p)
  \/ \E p \in Procs, c \in Codes : DeactivateQRCode(p, c)
  \/ \E d \in TickSteps : Tick(d)

SpecAct == InitLife /\ [][NextAct]_vars

\* Codes are generated and looked up.
NextCreate ==
  \/ \E p \in Procs, c \in Codes : CreateGenerate(p, c, Admin)
  \/ \E p \in Procs : CreateSave(p)
  \/ \E p \in Procs : CreateStats(p)
  \/ \E p \in Procs, c \in Codes : GetQRCodeByCodePublic(p, c)
  \/ \E p \in Procs : FetchQuery(p)
  \/ \E p \in Procs : FetchReturn(p)

SpecCreate == InitLife /\ [][NextCreate]_vars

\* Scans, and the notification requests a client may send.
NextNotify ==
  \/ \E p \in Procs, c \in Codes, ip \in IPs : HandleScan(p, c, ip)
  \/ \E p \in Procs, c \in Codes, ip \in IPs : TrackScan(p, c, ip)
  \/ \E p \in Procs : ScanSave(p)
  \/ \E p \in Procs, c \in Codes : NotifyCreate(p, c)
  \/ \E p \in Procs, delivered \in BOOLEAN : NotifyDeliver(p, delivered)

SpecNotify == InitLife /\ [][NextNotify]_vars

\* Lookups next to the mutators that evict and change what a lookup shows.
NextStale ==
  \/ \E p \in Procs, c \in Codes : GetQRCodeByCodePublic(p, c)
  \/ \E p \in Procs : FetchQuery(p)
  \/ \E p \in Procs : FetchReturn(p)
  \/ \E p \in Procs, c \in Codes, u \in Users : ActivateCheck(p, c, u, "t1")
  \/ \E p \in Procs : ActivateFind(p)
  \/ \E p \in Procs : ActivateSave(p)
  \/ \E p \in Procs, c \in Codes, f \in Finders : ReportFoundFind(p, c, f)
  \/ \E p \in Procs : ReportFoundSave(p)
  \/ \E p \in Procs : ReportFoundStats(p)

SpecStale == InitLife /\ [][NextStale]_vars

\* ------------------------------------------------- the cache and the clock
\* Public lookups while time passes and scans evict.
InitLookup == InitWith(Activated("u1", "t1", 0), 0)

NextLookup ==
  \/ \E p \in Procs, c \in Codes : GetQRCodeByCodePublic(p, c)
  \/ \E p \in Procs : FetchQuery(p)
  \/ \E p \in Procs : FetchTimeout(p)
  \/ \E p \in Procs : FetchReturn(p)
  \/ \E p \in Procs, c \in Codes, ip \in IPs : TrackScan(p, c, ip)
  \/ \E p \in Procs : ScanSave(p)
  \/ \E d \in TickSteps : Tick(d)

SpecLookup == InitLookup /\ [][NextLookup]_vars

\* ------------------------------------------------------ lookups alone
\* Public lookups, their fetches and the clock; nothing evicts.
NextFetch ==
  \/ \E p \in Procs, c \in Codes : GetQRCodeByCodePublic(p, c)
  \/ \E p \in Procs : FetchQuery(p)
  \/ \E p \in Procs : FetchTimeout(p)
  \/ \E p \in Procs : FetchReturn(p)
  \/ \E d \in TickSteps : Tick(d)

SpecFetch == InitLookup /\ [][NextFetch]_vars

\* ------------------------------------------ calls that end with an error
\* Codes are generated and reported found, one call at a time; the store may
\* reject the statistics update that follows a save.
Quiet == \A q \in Procs : pc[q] = Idle

NextFail ==
  \/ \E p \in Procs, c \in Codes : Quiet /\ CreateGenerate(p, c, Admin)
  \/ \E p \in Procs : CreateSave(p)
  \/ \E p \in Procs : CreateStats(p)
  \/ \E p \in Procs : CreateStatsFail(p)
  \/ \E p \in Procs, c \in Codes, f \in Finders : Quiet /\ ReportFoundFind(p, c, f)
  \/ \E p \in Procs : ReportFoundSave(p)
  \/ \E p \in Procs : ReportFoundStats(p)
  \/ \E p \in Procs : ReportFoundStatsFail(p)
  \/ \E d \in TickSteps : Tick(d)

SpecFail == InitLife /\ [][NextFail]_vars

\* ------------------------------------------------- deletes and lookups
\* The record of A1 is looked up and deleted, by its owner or by the admin.
NextDelete ==
  \/ \E p \in Procs, c \in Codes : GetQRCodeByCodePublic(p, c)
  \/ \E p \in Procs : FetchQuery(p)
  \/ \E p \in Procs : FetchReturn(p)
  \/ \E p \in Procs, c \in Codes, u \in Users : DeleteCheck(p, c, u)
  \/ \E p \in Procs : DeleteQRCode(p)
  \/ \E p \in Procs, c \in Codes : AdminDelete(p, c)
  \/ \E d \in TickSteps : Tick(d)

SpecDelete == InitLookup /\ [][NextDelete]_vars

\* ------------------------------------------------------------ the sweep
\* Two stored codes, their public lookups, found reports of one of them
\* (which evict) and the clock.
InitSweep ==
  /\ now = 0
  /\ store = [c \in Codes |-> {Activated("u1", "t1", 0)}]
  /\ users = {Admin, "u1"}
  /\ qrCache = [c \in Codes |-> {}]
  /\ requestQueue = [c \in Codes |-> {}]
  /\ pc = [p \in Procs |-> Idle]
  /\ loc = [p \in Procs |-> NoLoc]
  /\ result = [p \in Procs |-> NoResult]
  /\ ops = 0
  /\ ticks = 0
  /\ notifications = << >>
  /\ hist = NoHist

NextSweep ==
  \/ \E p \in Procs, c \in Codes : GetQRCodeByCodePublic(p, c)
  \/ \E p \in Procs : FetchQuery(p)
  \/ \E p \in Procs : FetchReturn(p)
  \/ \E p \in Procs, f \in Finders : ReportFoundFind(p, "A1", f)
  \/ \E p \in Procs : ReportFoundSave(p)
  \/ \E p \in Procs : ReportFoundStats(p)
  \/ \E d \in TickSteps : Tick(d)

SpecSweep == InitSweep /\ [][NextSweep]_vars

\* The same behaviours under the scheduling the runtime provides: a store
\* query that was sent completes or runs into maxTimeMS, and the code after
\* an await that has settled runs.
LookupFairness ==
  \A p \in Procs : /\ WF_vars(FetchQuery(p) \/ FetchTimeout(p))
                   /\ WF_vars(FetchReturn(p))

SpecFetchLive == SpecFetch /\ LookupFairness

\* --------------------------------------------------------- concurrent scans
\* An activated code that has been scanned n times already is scanned again.
ScanSeeds == {0, MAX_HISTORY - 1, MAX_HISTORY}

InitScan ==
  \E n \in ScanSeeds : InitWith(Scanned(Activated("u1", "t1", 0), n), MAX_HISTORY + 1)

NextScan ==
  \/ \E p \in Procs, c \in Codes, ip \in IPs : HandleScan(p, c, ip)
  \/ \E p \in Procs, c \in Codes, ip \in IPs : TrackScan(p, c, ip)
  \/ \E p \in Procs : ScanSave(p)
  \/ \E d \in TickSteps : Tick(d)

SpecScan == InitScan /\ [][NextScan]_vars

\* ------------------------------------------ found, toggled, updated, scanned
\* request bodies of PUT /:code that name one field of a section only
PartialBodies == {[contact |-> {}], [contact |-> {[phone |-> "t2"]}]}

InitFound == InitWith(Activated("u1", "t1", 0), 0)

NextFound ==
  \/ \E p \in Procs, c \in Codes, f \in Finders : ReportFoundFind(p, c, f)
  \/ \E p \in Procs : ReportFoundSave(p)
  \/ \E p \in Procs : ReportFoundStats(p)
  \/ \E p \in Procs, c \in Codes, u \in Users : ToggleCheck(p, c, u)
  \/ \E p \in Procs : ToggleQRCodeStatus(p)
  \/ \E p \in Procs, c \in Codes, u \in Users, d \in PartialBodies :
        UpdateCheck(p, c, u, d)
  \/ \E p \in Procs : UpdateQRCode(p)
  \/ \E d \in TickSteps : Tick(d)

SpecFound == InitFound /\ [][NextFound]_vars

\* Reports and toggles alone, at one instant.
NextReport ==
  \/ \E p \in Procs, c \in Codes, f \in Finders : ReportFoundFind(p, c, f)
  \/ \E p \in Procs : ReportFoundSave(p)
  \/ \E p \in Procs : ReportFoundStats(p)
  \/ \E p \in Procs, c \in Codes, u \in Users : ToggleCheck(p, c, u)
  \/ \E p \in Procs : ToggleQRCodeStatus(p)

SpecReport == InitFound /\ [][NextReport]_vars

\* -------------------------------------------------------- toggles alone
\* The owner of the active code A1 sends toggle-status requests.
NextToggle ==
  \/ \E p \in Procs : ToggleCheck(p, "A1", "u1")
  \/ \E p \in Procs : ToggleQRCodeStatus(p)
  \/ \E d \in TickSteps : Tick(d)

SpecToggle == InitFound /\ [][NextToggle]_vars

\* ------------------------------------------- scans of a code in any status
\* An activated code in any of the four statuses, scanned 0 or 50 times
\* before, is scanned (one scan at a time) while found reports run.
Statuses == {"active", "inactive", "suspended", "found"}

NoScanRunning == \A q \in Procs : pc[q] # "scan_save"

InitStatus ==
  \E st \in Statuses, n \in {0, MAX_HISTORY} :
     InitWith([Scanned(Activated("u1", "t1", 0), n) EXCEPT !.status = st],
              MAX_HISTORY + 1)

NextStatus ==
  \/ \E p \in Procs, ip \in IPs : NoScanRunning /\ HandleScan(p, "A1", ip)
  \/ \E p \in Procs, ip \in IPs : NoScanRunning /\ TrackScan(p, "A1", ip)
  \/ \E p \in Procs : ScanSave(p)
  \/ \E p \in Procs, f \in Finders : ReportFoundFind(p, "A1", f)
  \/ \E p \in Procs : ReportFoundSave(p)
  \/ \E p \in Procs : ReportFoundStats(p)

SpecStatus == InitStatus /\ [][NextStatus]_vars

\* ------------------------------------------------- scans one after another
\* A scan is started only when no handler is busy, so scans never overlap.
NextSeq ==
  \/ \E p \in Procs, c \in Codes, ip \in IPs :
        (\A q \in Procs : pc[q] = Idle) /\ HandleScan(p, c, ip)
  \/ \E p \in Procs, c \in Codes, ip \in IPs :
        (\A q \in Procs : pc[q] = Idle) /\ TrackScan(p, c, ip)
  \/ \E p \in Procs : ScanSave(p)
  \/ \E d \in TickSteps : Tick(d)

SpecSeq == InitScan /\ [][NextSeq]_vars

\* ------------------------------------------------- the contact-update flow
\* The owner u1 of an activated code (and a stranger u2) request OTPs and
\* submit them.
OtpBodies  == {[newEmail |-> {}, newPhone |-> {"t2"}]}
OtpPatches == {[contact |-> {[email |-> "u1", phone |-> "t2"]}]}

InitOtp == InitWith(Activated("u1", "t1", 0), 0)

NextOtp ==
  \/ \E p \in Procs, u \in Users, b \in OtpBodies, otp \in OTPs :
        SendOtpCheck(p, "A1", u, b, otp)
  \/ \E p \in Procs : StoreUpdateOTP(p)
  \/ \E p \in Procs, u \in Users, otp \in OTPs, d \in OtpPatches :
        VerifyCheck(p, "A1", u, otp, d)
  \/ \E p \in Procs : VerifyUpdateOTP(p)
  \/ \E p \in Procs : VerifyApply(p)
  \/ \E p \in Procs : VerifyClear(p)
  \/ \E d \in TickSteps : Tick(d)

SpecOtp == InitOtp /\ [][NextOtp]_vars

\* ------------------------------------- the update a verified OTP installs
\* The owner asks for an OTP proposing the phone t2 and submits it with
\* updateData that names the proposed contact or another one.
VerifyPatches == OtpPatches \cup {[contact |-> {[email |-> "u2", phone |-> "t9"]}]}

NextVerify ==
  \/ \E p \in Procs, b \in OtpBodies, otp \in OTPs :
        SendOtpCheck(p, "A1", "u1", b, otp)
  \/ \E p \in Procs : StoreUpdateOTP(p)
  \/ \E p \in Procs, otp \in OTPs, d \in VerifyPatches :
        VerifyCheck(p, "A1", "u1", otp, d)
  \/ \E p \in Procs : VerifyUpdateOTP(p)
  \/ \E p \in Procs : VerifyApply(p)
  \/ \E p \in Procs : VerifyClear(p)

SpecVerify == InitOtp /\ [][NextVerify]_vars

\* ------------------------------------------- the update flow on two codes
\* u1 owns both codes, asks for an OTP for either (111111 is drawn for A1,
\* 222222 for B2) and submits either OTP to either code.
NextCodes ==
  \/ \E p \in Procs, b \in OtpBodies : SendOtpCheck(p, "A1", "u1", b, "111111")
  \/ \E p \in Procs, b \in OtpBodies : SendOtpCheck(p, "B2", "u1", b, "222222")
  \/ \E p \in Procs : StoreUpdateOTP(p)
  \/ \E p \in Procs, c \in Codes, otp \in OTPs, d \in OtpPatches :
        VerifyCheck(p, c, "u1", otp, d)
  \/ \E p \in Procs : VerifyUpdateOTP(p)
  \/ \E p \in Procs : VerifyApply(p)
  \/ \E p \in Procs : VerifyClear(p)
  \/ Tick(OTP_TTL - 1)

SpecCodes == InitSweep /\ [][NextCodes]_vars

\* ------------------------------------------------ every writer of a record
\* All operations that write the record of code A1, without lookups: the
\* owner u1 (and, for activation, u2) at one instant.
NextWrites ==
  \/ \E p \in Procs, ip \in IPs : HandleScan(p, "A1", ip)
  \/ \E p \in Procs : ScanSave(p)
  \/ \E p \in Procs, u \in Users : ActivateCheck(p, "A1", u, "t1")
  \/ \E p \in Procs : ActivateFind(p)
  \/ \E p \in Procs : ActivateSave(p)
  \/ \E p \in Procs, f \in Finders : ReportFoundFind(p, "A1", f)
  \/ \E p \in Procs : ReportFoundSave(p)
  \/ \E p \in Procs : ReportFoundStats(p)
  \/ \E p \in Procs, d \in OtpPatches : UpdateCheck(p, "A1", "u1", d)
  \/ \E p \in Procs : UpdateQRCode(p)
  \/ \E p \in Procs : ToggleCheck(p, "A1", "u1")
  \/ \E p \in Procs : ToggleQRCodeStatus(p)
  \/ \E p \in Procs : DeactivateQRCode(p, "A1")
  \/ \E p \in Procs, b \in OtpBodies : SendOtpCheck(p, "A1", "u1", b, "111111")
  \/ \E p \in Procs : StoreUpdateOTP(p)
  \/ \E p \in Procs, d \in OtpPatches : VerifyCheck(p, "A1", "u1", "111111", d)
  \/ \E p \in Procs : VerifyUpdateOTP(p)
  \/ \E p \in Procs : VerifyApply(p)
  \/ \E p \in Procs : VerifyClear(p)

SpecWrites == Init /\ [][NextWrites]_vars

\* ===================================================================== claims
\* C1: lookups of one code that miss the cache and start before the first of
\* them is answered share one store query: while any lookup of a code is
\* unanswered exactly one store query has been issued for it, and when one
\* of them is answered all of them are, in the same step and with the same
\* reply, whose record is the one that query read.
C1_Coalesced ==
  [][ \A c \in Codes :
        /\ PendingLookups(pc', loc', c) # {} => hist'.missQueries[c] = 1
        /\ \A p, q \in PendingLookups(pc, loc, c) :
              pc'[p] = Idle =>
                /\ pc'[q] = Idle
                /\ result'[q] = result'[p]
                /\ result'[p].out = "ok" => result'[p].data = loc[loc[p].wait].doc
    ]_vars

\* two handlers were answered by one fetch, with the same record
C1_Witness ==
  \E p, q \in Procs :
     /\ p # q
     /\ result[p].op = "lookup" /\ result[p].out = "ok" /\ result[p].data # {}
     /\ result[q] = result[p]

\* C2: after a successful activate, scan, reportFound or updateQRCode of a
\* code, no valid cache entry of that code was inserted before the mutation.
C2_CacheFreshAfterMutation ==
  \A c \in Codes :
     hist.predates[c] => ~ \E e \in qrCache[c] : CacheValid(e, now)

\* C3: no OTP that was stored authorises two contact updates.
C3_OtpSingleUse ==
  \A c \in Codes : \A i, j \in DOMAIN hist.applied[c] :
     i # j => hist.applied[c][i] # hist.applied[c][j]

\* C4: once a verify-update-otp request has succeeded with an OTP, the OTP
\* check of every later request with that OTP fails with
\* InvalidOrExpiredOTP and the request changes nothing, until an OTP is
\* stored again.
C4_NoReplay ==
  [][ \A p \in Procs :
        (VerifyUpdateOTP(p) /\ loc[p].val \in hist.spent[loc[p].code]) =>
           /\ result'[p].out = "InvalidOrExpiredOTP"
           /\ pc'[p] = Idle
           /\ store' = store
    ]_vars

\* a request was refused the OTP that had authorised an update before
C4_Witness ==
  \E p \in Procs :
     /\ result[p].op = "verify" /\ result[p].out = "InvalidOrExpiredOTP"
     /\ result[p].arg \in hist.spent[result[p].code]

\* C5: when no scan of a code is in progress, its scanCount has grown by the
\* number of scans that succeeded.
C5_EveryScanCounted ==
  \A c \in Codes : \A r \in store[c] :
     (\A p \in Procs : ~(pc[p] = "scan_save" /\ loc[p].code = c)) =>
        r.scanCount = hist.scanBase[c] + hist.okScans[c]

\* C6: an activate request that finds the code activated fails with
\* AlreadyActivated when the requester is not the owner and succeeds with
\* the existing record when it is; either way the record stays as it is.
C6_Reactivation ==
  [][ \A p \in Procs, c \in Codes :
        ( /\ pc[p] = Idle
          /\ result'[p].op = "activate" /\ result'[p].code = c
          /\ store[c] # {} /\ TheRecord(c).isActivated ) =>
           /\ store' = store
           /\ pc'[p] = Idle
           /\ IF result'[p].arg = TheRecord(c).owner
              THEN result'[p].out = "ok-already" /\ result'[p].data = store[c]
              ELSE result'[p].out = "AlreadyActivated"
    ]_vars

\* the owner activated the code again and was answered with success
C6_Witness ==
  \E p \in Procs :
     /\ result[p].op = "activate" /\ result[p].out = "ok-already"
     /\ \E r \in result[p].data : r.owner = result[p].arg /\ r.isActivated

\* C7: a scan of a code that is not activated fails with NotActivated and
\* changes neither the record nor the cache.
C7_ScanUnactivated ==
  [][ \A p \in Procs, c \in Codes, ip \in IPs :
        ( /\ HandleScan(p, c, ip) \/ TrackScan(p, c, ip)
          /\ store[c] # {} /\ ~TheRecord(c).isActivated ) =>
           /\ result'[p].out = "NotActivated"
           /\ pc'[p] = Idle
           /\ store' = store
           /\ qrCache' = qrCache
    ]_vars

\* a scan was refused while the code was not activated
C7_Witness ==
  \E p \in Procs :
     /\ result[p].op \in {"handleScan", "trackScan"}
     /\ result[p].out = "NotActivated"
     /\ \E r \in store[result[p].code] : ~r.isActivated /\ r.scanCount = 0

\* C8: no record ever holds more than 50 scan records.
C8_HistoryBounded ==
  \A c \in Codes : \A r \in store[c] : Len(r.scanHistory) <= MAX_HISTORY

\* C9: a lookup is served from the cache only by an entry younger than the
\* TTL, and a lookup that finds an expired entry and no fetch in flight
\* issues a store query.
C9_NoExpiredHit ==
  [][ \A p \in Procs, c \in Codes :
        GetQRCodeByCodePublic(p, c) =>
           /\ result'[p].out = "hit" =>
                 \E e \in qrCache[c] : /\ now - e.timestamp < CACHE_TTL
                                       /\ result'[p].data = {e.data}
           /\ ( /\ \E e \in qrCache[c] : now - e.timestamp >= CACHE_TTL
                /\ requestQueue[c] = {} ) =>
                 /\ pc'[p] = "lookup_fetch"
                 /\ hist'.missQueries[c] = hist.missQueries[c] + 1
    ]_vars

\* a lookup found an entry that had just reached the TTL and queried the store
C9_Witness ==
  \E p \in Procs :
     /\ pc[p] = "lookup_fetch"
     /\ \E e \in qrCache[loc[p].code] : now - e.timestamp = CACHE_TTL

\* C10: when toggleQRCodeStatus or deactivateQRCode has succeeded for a code,
\* the cache holds no entry of that code.
C10_ToggleDeactivateEvict ==
  [][ \A p \in Procs :
        (result'[p].op \in {"toggle", "deactivate"} /\ result'[p].out = "ok") =>
           qrCache'[result'[p].code] = {}
    ]_vars

\* C11: the registry holds an entry for a code exactly while a fetch of that
\* code is in flight, and the entry names the handler that started it; a
\* fetch that has finished, with a record or with a failure, has left none.
C11_RegistryInFlight ==
  \A c \in Codes :
     requestQueue[c] = {p \in Procs : /\ pc[p] \in {"lookup_fetch", "lookup_fetched"}
                                      /\ loc[p].code = c}

\* a fetch has just failed and the registry holds nothing for its code
C11_Witness ==
  \E p \in Procs :
     /\ result[p].op = "lookup"
     /\ result[p].out \notin {"ok", "hit", "-"}
     /\ requestQueue[result[p].code] = {}

\* C12: when the fetch of a code fails (timeout or no such code), every
\* lookup of that code that was waiting is answered in that step with the
\* failure, and the cache is left as it was.
C12_FailureShared ==
  [][ \A p \in Procs :
        (FetchTimeout(p) \/ (FetchReturn(p) /\ loc[p].doc = {})) =>
           /\ result'[p].out \notin {"ok", "hit", "-"}
           /\ \A q \in PendingLookups(pc, loc, loc[p].code) :
                 pc'[q] = Idle /\ result'[q] = result'[p]
           /\ qrCache' = qrCache
    ]_vars

\* two handlers were answered by one fetch that timed out
C12_Witness ==
  \E p, q \in Procs :
     /\ p # q
     /\ result[p].op = "lookup"
     /\ result[p].out = "Failed to get QR code: timeout"
     /\ result[q] = result[p]

\* C13: every lookup that waits for a fetch is eventually answered, and the
\* registry is eventually empty for good.
C13_LookupsReturn ==
  /\ \A p \in Procs :
        (pc[p] \in {"lookup_fetch", "lookup_fetched", "lookup_wait"}) ~> (pc[p] = Idle)
  /\ <>[](\A c \in Codes : requestQueue[c] = {})

\* the last request of the run was a lookup answered by a fetch, and nothing
\* is left waiting or registered
C13_Witness ==
  /\ ops = MaxOps
  /\ \E p \in Procs : result[p].op = "lookup" /\ result[p].out # "hit"
  /\ \A q \in Procs : pc[q] = Idle
  /\ \A c \in Codes : requestQueue[c] = {}

\* C14: the OTP test of a verify-update-otp request fails with
\* InvalidOrExpiredOTP, and the request changes nothing, unless the record
\* holds a pending update whose code is the submitted OTP and whose expiry
\* is strictly later than the current time.
C14_OtpGate ==
  [][ \A p \in Procs :
        LET c == loc[p].code
            accepted == \E r \in store[c] :
                           /\ r.updateOTP.present
                           /\ r.updateOTP.code = {loc[p].val}
                           /\ \E e \in r.updateOTP.expires : now < e
        IN  (VerifyUpdateOTP(p) /\ ~accepted) =>
               /\ result'[p].out = "InvalidOrExpiredOTP"
               /\ pc'[p] = Idle
               /\ store' = store
    ]_vars

\* the right OTP was refused at the very instant of its expiry
C14_Witness ==
  \E p \in Procs :
     /\ result[p].op = "verify" /\ result[p].out = "InvalidOrExpiredOTP"
     /\ \E r \in store[result[p].code] :
           r.updateOTP.code = {result[p].arg} /\ r.updateOTP.expires = {now}

\* C15: the stored scanCount of a record never decreases.
C15_ScanCountMonotonic ==
  [][ \A c \in Codes : \A r \in store[c], r2 \in store'[c] :
        r2.scanCount >= r.scanCount
    ]_vars

\* C16: when scans run one after another, after k successful scans
\* scanCount has grown by k and the history holds min(length at the start
\* + k, 50) records (a record at the start holds min(scanCount, 50)).
C16_SequentialScans ==
  \A c \in Codes : \A r \in store[c] :
     LET k     == hist.okScans[c]
         len0  == IF hist.scanBase[c] < MAX_HISTORY THEN hist.scanBase[c] ELSE MAX_HISTORY
     IN  /\ r.scanCount = hist.scanBase[c] + k
         /\ Len(r.scanHistory) = IF len0 + k < MAX_HISTORY THEN len0 + k ELSE MAX_HISTORY

\* three scans of a freshly activated code: scanCount 3, three records
C16_Witness ==
  \E c \in Codes : \E r \in store[c] :
     /\ hist.scanBase[c] = 0 /\ hist.okScans[c] = 3
     /\ r.scanCount = 3 /\ Len(r.scanHistory) = 3

\* C17: reportFound that reads a record whose status is found fails with
\* AlreadyFound and leaves the record as it is; reading any other status it
\* goes on to save the record with status found and answers success.
C17_ReportFound ==
  [][ \A p \in Procs :
        /\ \A c \in Codes, f \in Finders :
              (ReportFoundFind(p, c, f) /\ store[c] # {}) =>
                 IF TheRecord(c).status = "found"
                 THEN /\ result'[p].out = "AlreadyFound"
                      /\ pc'[p] = Idle
                      /\ store' = store
                 ELSE pc'[p] = "found_save"
        /\ (ReportFoundSave(p) /\ store[loc[p].code] # {}) =>
              /\ pc'[p] = "found_stats"
              /\ \A r \in store'[loc[p].code] : r.status = "found" /\ r.foundBy # {}
        /\ ReportFoundStats(p) => result'[p].out = "ok"
    ]_vars

\* a report was refused because the record was marked as found already
C17_Witness ==
  \E p \in Procs :
     /\ result[p].op = "reportFound" /\ result[p].out = "AlreadyFound"
     /\ \E r \in store[result[p].code] : r.status = "found" /\ r.foundBy # {}

\* C18: once foundBy of a record has been written, no step changes it.
C18_FoundByWrittenOnce ==
  [][ \A c \in Codes : \A r \in store[c], r2 \in store'[c] :
        r.foundBy # {} => r2.foundBy = r.foundBy
    ]_vars

\* C19: toggleQRCodeStatus leaves a record whose status is found or
\* suspended as it is, and a status it writes is active or inactive.
C19_ToggleTransitions ==
  [][ \A p \in Procs :
        ToggleQRCodeStatus(p) =>
           \A r \in store[loc[p].code], r2 \in store'[loc[p].code] :
              /\ r.status \in {"found", "suspended"} => r2.status = r.status
              /\ r2.status # r.status => r2.status \in {"active", "inactive"}
    ]_vars

\* C20: updateQRCode keeps every contact field the patch does not name, and
\* leaves status, isActivated, owner, scanCount and scanHistory alone.
C20_UpdateMerges ==
  [][ \A p \in Procs :
        UpdateQRCode(p) =>
           \A r \in store[loc[p].code], r2 \in store'[loc[p].code] :
              /\ \A d \in loc[p].arg : \A k \in d.contact :
                    \A field \in (DOMAIN r.contact) \ (DOMAIN k) :
                       /\ field \in DOMAIN r2.contact
                       /\ r2.contact[field] = r.contact[field]
              /\ r2.status = r.status /\ r2.isActivated = r.isActivated
              /\ r2.owner = r.owner /\ r2.scanCount = r.scanCount
              /\ r2.scanHistory = r.scanHistory
    ]_vars

\* C21: a step that takes isActivated of a record from true to false is a
\* step of deactivateQRCode on that code.
C21_ActivatedOneWay ==
  [][ \A c \in Codes : \A r \in store[c], r2 \in store'[c] :
        (r.isActivated /\ ~r2.isActivated) => \E p \in Procs : DeactivateQRCode(p, c)
    ]_vars

\* a report has marked an activated record as found and it is still activated
C21_Witness ==
  \E c \in Codes : \E r \in store[c] :
     /\ r.isActivated /\ r.status = "found"
     /\ r.owner \in Users

\* C22: once activationDate of a record has been set, no step changes it.
C22_ActivationDateOnce ==
  [][ \A c \in Codes : \A r \in store[c], r2 \in store'[c] :
        r.activationDate # NoDate => r2.activationDate = r.activationDate
    ]_vars

\* C27: an activation that reports success does not overwrite the
\* activation of another identity that succeeded while it was running: at
\* its save the record is not activated by somebody else.
C27_OneActivationWins ==
  [][ \A p \in Procs :
        (ActivateSave(p) /\ result'[p].out = "ok") =>
           \A r \in store[loc[p].code] :
              ~(r.isActivated /\ r.owner # loc[p].user)
    ]_vars

\* C23: no create is answered with the failure of an insert that the
\* uniqueness constraint rejected.
C23_CollisionRetried ==
  \A p \in Procs :
     ~(result[p].op = "create" /\ result[p].out = "Failed to create QR code: duplicate key")

\* C24: in every state the OTP code of a record is present exactly when its
\* expiry is.
C24_OtpWhole ==
  \A c \in Codes : \A r \in store[c] :
     (r.updateOTP.code # {}) <=> (r.updateOTP.expires # {})

\* an OTP was stored, used and cleared: neither code nor expiry is left
C24_Witness ==
  \E c \in Codes : \E r \in store[c] :
     /\ r.updateOTP.present
     /\ r.updateOTP.code = {} /\ r.updateOTP.expires = {}
     /\ Len(hist.applied[c]) > 0

\* C25: a scan that succeeds has created a scan notification by the time it
\* returns, and a notification whose delivery fails leaves the records as
\* they are and fails no scan.
C25_ScanNotifies ==
  [][ \A p \in Procs :
        /\ (ScanSave(p) /\ result'[p].out = "ok") =>
              /\ Len(notifications') = Len(notifications) + 1
              /\ notifications'[Len(notifications')].code = loc[p].code
        /\ NotifyDeliver(p, FALSE) =>
              /\ store' = store
              /\ \A q \in Procs : result'[q].op \notin {"handleScan", "trackScan"}
    ]_vars

\* C26: when no request on a code is in progress (every mutation of it has
\* returned, no fetch of it is in flight), its cache entry is absent or is
\* the public projection of the record the store holds.
C26_NoStaleInstall ==
  \A c \in Codes :
     (\A p \in Procs : pc[p] = Idle \/ loc[p].code # c) =>
        \A e \in qrCache[c] : \A r \in store[c] : e.data = PublicProjection(r)

\* C28: foundBy of a record holds the name, the phone and the location that
\* the found request submitted.
C28_FoundByHoldsFinder ==
  \A c \in Codes : \A r \in store[c] : \A fb \in r.foundBy :
     \E f \in Finders : /\ fb.finderName = f.finderName
                        /\ fb.finderPhone = f.finderPhone
                        /\ fb.foundLocation = f.foundLocation

\* C29: a lookup that finds a valid cache entry is answered from it at once:
\* it issues no store query and leaves cache, registry and store as they
\* were.
C29_HitIsPure ==
  [][ \A p \in Procs, c \in Codes :
        ( /\ GetQRCodeByCodePublic(p, c)
          /\ \E e \in qrCache[c] : now - e.timestamp < CACHE_TTL ) =>
           /\ result'[p].out = "hit"
           /\ pc'[p] = Idle
           /\ hist'.missQueries = hist.missQueries
           /\ qrCache' = qrCache
           /\ requestQueue' = requestQueue
           /\ store' = store
    ]_vars

\* a lookup was served from the cache one tick before the entry expires
C29_Witness ==
  \E p \in Procs :
     /\ result[p].op = "lookup" /\ result[p].out = "hit"
     /\ \E e \in qrCache[result[p].code] :
           now - e.timestamp = CACHE_TTL - 1 /\ result[p].data = {e.data}

\* C30: an OTP passes the test of verifyUpdateOTP only if it is the one that
\* storeUpdateOTP stored last for the code and the time is before the expiry
\* stored with it.
C30_LatestOtpOnly ==
  [][ \A p \in Procs :
        (VerifyUpdateOTP(p) /\ pc'[p] = "verify_update") =>
           \E i \in hist.issued[loc[p].code] :
              i.code = loc[p].val /\ now < i.expires
    ]_vars

\* a second OTP was stored and the first one was refused
C30_Witness ==
  \E p \in Procs :
     /\ result[p].op = "verify" /\ result[p].out = "InvalidOrExpiredOTP"
     /\ hist.serial[result[p].code] = 2
     /\ \E i \in hist.issued[result[p].code] : i.code # result[p].arg /\ now < i.expires

\* C31: right after a fetch has inserted its cache entry, no entry of any
\* code is older than the TTL; and an entry disappears from the cache only
\* when a fetch's sweep finds it older than the TTL or when a mutation of its
\* code evicts it.
C31_SweepOnInsert ==
  [][ /\ \A p \in Procs :
           (FetchReturn(p) /\ loc[p].doc # {}) =>
              /\ \A k \in Codes : \A e \in qrCache'[k] :
                    now - e.timestamp <= CACHE_TTL
              /\ \E e \in qrCache'[loc[p].code] : e.timestamp = now
      /\ \A k \in Codes :
           (qrCache[k] # {} /\ qrCache'[k] = {}) =>
              \/ /\ \E p \in Procs : FetchReturn(p) /\ loc[p].doc # {}
                 /\ \A e \in qrCache[k] : now - e.timestamp > CACHE_TTL
              \/ \E p \in Procs : ReportFoundSave(p) /\ loc[p].code = k
    ]_vars

\* a fetch of one code has swept the expired entry of the other, while an
\* entry aged exactly the TTL would have stayed
C31_Witness ==
  \E p \in Procs, k \in Codes :
     /\ result[p].op = "lookup" /\ result[p].out = "ok" /\ result[p].code # k
     /\ hist.swept[k] /\ qrCache[k] = {}
     /\ \E e \in qrCache[result[p].code] : e.timestamp = now

\* C32: when a verified OTP changes the contact email or phone of a record,
\* the new value is the newEmail / newPhone stored with the OTP.
C32_OnlyProposedInstalled ==
  [][ \A p \in Procs :
        (VerifyApply(p) /\ store[loc[p].code] # {}) =>
           LET old == TheRecord(loc[p].code)
               new == CHOOSE r \in store'[loc[p].code] : TRUE
           IN  /\ new.contact.email # old.contact.email =>
                      new.contact.email \in old.updateOTP.newEmail
               /\ new.contact.phone # old.contact.phone =>
                      new.contact.phone \in old.updateOTP.newPhone
    ]_vars

\* C33: once a record has been activated, no step changes its owner.
C33_OwnerFixed ==
  [][ \A c \in Codes : \A r \in store[c], r2 \in store'[c] :
        r.activationDate # NoDate => r2.owner = r.owner
    ]_vars

\* C34: a public lookup that starts when the store holds no record for its
\* code is not answered with a record from the cache.
C34_NoLookupAfterDelete ==
  [][ \A p \in Procs, c \in Codes :
        (GetQRCodeByCodePublic(p, c) /\ store[c] = {}) => result'[p].out # "hit"
    ]_vars

\* C35: when a create or a reportFound, running alone, answers with an
\* error, the store holds for its code what it held when the call began.
C35_ErrorLeavesStore ==
  [][ \A p \in Procs :
        ( /\ pc[p] \in {"create_save", "create_stats", "found_save", "found_stats"}
          /\ pc'[p] = Idle
          /\ result'[p].out # "ok" ) =>
           store'[loc[p].code] = hist.atCall[p]
    ]_vars

\* C36: when two toggle-status requests on the active code A1 have been
\* answered and no third has begun, the status is active again.
C36_TwoTogglesRestore ==
  (ops = 2 /\ Quiet) => \A r \in store["A1"] : r.status = "active"

\* C37: a scan of an activated record is not refused whatever the status
\* is; when no other scan overlaps it, its save succeeds and raises
\* scanCount by one; and the save leaves status, isActivated, owner, contact,
\* foundBy and updateOTP as they are in the store.
C37_ScanAnyStatus ==
  [][ \A p \in Procs :
        /\ \A ip \in IPs :
              ( /\ HandleScan(p, "A1", ip) \/ TrackScan(p, "A1", ip)
                /\ \E r \in store["A1"] : r.isActivated ) =>
                 pc'[p] = "scan_save"
        /\ ScanSave(p) =>
              /\ result'[p].out = "ok"
              /\ \A r \in store[loc[p].code], r2 \in store'[loc[p].code] :
                    /\ r2.scanCount = r.scanCount + 1
                    /\ r2.status = r.status /\ r2.isActivated = r.isActivated
                    /\ r2.owner = r.owner /\ r2.contact = r.contact
                    /\ r2.foundBy = r.foundBy /\ r2.updateOTP = r.updateOTP
    ]_vars

\* a scan of a suspended code that had been scanned 50 times succeeded
C37_Witness ==
  \E p \in Procs :
     /\ result[p].op \in {"handleScan", "trackScan"} /\ result[p].out = "ok"
     /\ \E r \in store[result[p].code] :
           r.status = "suspended" /\ r.scanCount = MAX_HISTORY + 1

C39_OtpPerCode ==
  [][ /\ \A p \in Procs :
           (VerifyUpdateOTP(p) /\ pc'[p] = "verify_update") =>
              \E r \in store[loc[p].code] :
                 /\ loc[p].val \in r.updateOTP.code
                 /\ \E e \in r.updateOTP.expires : now < e
      /\ \A k \in Codes : \A r \in store[k], r2 \in store'[k] :
           (r2.updateOTP # r.updateOTP \/ r2.contact # r.contact) =>
              \E p \in Procs :
                 /\ loc[p].code = k
                 /\ StoreUpdateOTP(p) \/ VerifyApply(p) \/ VerifyClear(p)
    ]_vars

\* an OTP that is pending on one code was refused for the other, whose own
\* pending OTP is a different one
C39_Witness ==
  \E p \in Procs, k \in Codes :
     /\ result[p].op = "verify" /\ result[p].out = "InvalidOrExpiredOTP"
     /\ k # result[p].code
     /\ \E r \in store[k] : /\ result[p].arg \in r.updateOTP.code
                              /\ \E e \in r.updateOTP.expires : now < e
     /\ \E r \in store[result[p].code] :
           /\ r.updateOTP.code # {} /\ result[p].arg \notin r.updateOTP.code
           /\ \E e \in r.updateOTP.expires : now < e

====
